---------------------------- MODULE Spec2Model ----------------------------
(***************************************************************************)
(* Sleepy: the sleep-schedule optimizer (src/src/services/                 *)
(* sleep_optimizer.py) under the policy of config/settings.py.             *)
(*                                                                         *)
(* Units.  A datetime is the number of minutes since 00:00 of day 0; a     *)
(* date is a day number; a time of day is a record [hour, minute].  A      *)
(* time text "HH:MM" is the sequence of its numeric components <<HH, MM>>  *)
(* (what split(':') and int() make of it).  A number of hours (a Python    *)
(* float with at most two decimals) is kept in hundredths of an hour, so   *)
(* 6.0 h is 600 and 7.5 h is 750.                                          *)
(***************************************************************************)
EXTENDS Integers, Sequences, FiniteSets, TLC

\* ---------------------------------------------------------------- bounds
\* Dates run over the days 0..MaxDay.
MaxDay == 1

\* Minute components the inputs are drawn from: both ends of the hour, the
\* half hour and their neighbours, so that every threshold of the algorithm
\* (7.5 h, 6.0 h, the hour of the pivot) is met exactly, one minute below
\* and one minute above, and every residue of the rounding occurs.
MinuteGrid == {0, 1, 14, 15, 16, 29, 30, 31, 44, 45, 46, 59}

\* The components of the time texts: every hour and the minutes of the grid,
\* and one out-of-range value of each, which time(hour=, minute=) rejects.
HourTexts == (0..23) \cup {25}
MinuteTexts == MinuteGrid \cup {99}
TimeTexts == {<<h, m>> : h \in HourTexts, m \in MinuteTexts}
Dates == 0..MaxDay

\* ------------------------------------------------- config/settings.py
DEFAULT_SLEEP_DURATION_HOURS == 700
MIN_SLEEP_DURATION_HOURS == 600
MAX_SLEEP_DURATION_HOURS == 750
OPTIMAL_WAKE_TIME_HOUR == 4
ISHA_BUFFER_MINUTES == 30
FAJR_BUFFER_MINUTES == 0

\* The literal 7.5 of the first branch of calculate_optimal_schedule.
PLENTY_HOURS == 750

\* ------------------------------------------------------ datetime helpers
MinutesPerDay == 24 * 60

\* datetime.combine(d, t)
Combine(d, t) == d * MinutesPerDay + t.hour * 60 + t.minute

\* datetime.time()
TimeOf(dt) == [hour |-> (dt % MinutesPerDay) \div 60, minute |-> dt % 60]

\* timedelta(hours=h) in minutes, h in hundredths of an hour
HoursDelta(h) == (h * 60) \div 100

\* td.total_seconds() / 3600 >= h, for a timedelta of m minutes
HoursAtLeast(m, h) == m * 100 >= h * 60

\* round(td.total_seconds() / 3600, 2) for a timedelta of m minutes, in
\* hundredths of an hour: 100*m/60 = 5m/3 is never half way between two
\* integers, so rounding is to the nearest one.
RoundHours(m) == (5 * m + 1) \div 3

\* time.strftime('%H:%M')
FormatTime(t) == <<t.hour, t.minute>>

\* time(hour=, minute=) raises ValueError outside 0..23 / 0..59
TimeRaises(text) == ~(text[1] \in 0..23 /\ text[2] \in 0..59)

\* SleepOptimizer._parse_time, on a text it accepts
parse_time(text) == [hour |-> text[1], minute |-> text[2]]

\* ------------------------------------------------- time texts, by character
\* A text is a sequence of characters.  The characters the texts of the
\* parsing checks are made of: digits, the separator, a blank, a letter
\* and a sign.
Chars == {"0", "2", "5", "9", ":", " ", "x", "-"}

\* The texts of at most n characters.
TextsUpTo(n) == UNION {[1..k -> Chars] : k \in 0..n}

Digits == {"0", "1", "2", "3", "4", "5", "6", "7", "8", "9"}

DigitVal(c) ==
    CASE c = "0" -> 0 [] c = "1" -> 1 [] c = "2" -> 2 [] c = "3" -> 3
      [] c = "4" -> 4 [] c = "5" -> 5 [] c = "6" -> 6 [] c = "7" -> 7
      [] c = "8" -> 8 [] c = "9" -> 9

\* str.strip(): the text without its leading and trailing blanks
RECURSIVE LStrip(_)
LStrip(s) == IF s # <<>> /\ s[1] = " " THEN LStrip(Tail(s)) ELSE s

RECURSIVE RStrip(_)
RStrip(s) ==
    IF s # <<>> /\ s[Len(s)] = " " THEN RStrip(SubSeq(s, 1, Len(s) - 1)) ELSE s

Strip(s) == RStrip(LStrip(s))

\* str.split(':'): the parts between the separators, at least one
RECURSIVE Split(_)
Split(s) ==
    IF \A i \in 1..Len(s) : s[i] # ":"
    THEN <<s>>
    ELSE LET i == CHOOSE j \in 1..Len(s) :
                      s[j] = ":" /\ \A k \in 1..(j - 1) : s[k] # ":"
         IN <<SubSeq(s, 1, i - 1)>> \o Split(SubSeq(s, i + 1, Len(s)))

\* The digits of a part that int() accepts: blanks around it and one sign
\* before the digits are allowed.
Unsigned(p) ==
    LET q == Strip(p)
    IN IF q # <<>> /\ q[1] \in {"-", "+"} THEN Tail(q) ELSE q

\* int(p) does not raise ValueError
IsInt(p) ==
    /\ Unsigned(p) # <<>>
    /\ \A i \in 1..Len(Unsigned(p)) : Unsigned(p)[i] \in Digits

RECURSIVE DigitsVal(_)
DigitsVal(ds) ==
    IF ds = <<>> THEN 0
    ELSE 10 * DigitsVal(SubSeq(ds, 1, Len(ds) - 1)) + DigitVal(ds[Len(ds)])

\* int(p)
IntVal(p) ==
    IF Strip(p)[1] = "-" THEN 0 - DigitsVal(Unsigned(p))
    ELSE DigitsVal(Unsigned(p))

\* The error SleepOptimizer._parse_time raises on a text, or "none".
ParseError(text) ==
    LET parts == Split(Strip(text))
    IN IF ~IsInt(parts[1]) THEN "ValueError"
       ELSE IF Len(parts) < 2 THEN "IndexError"
       ELSE IF ~IsInt(parts[2]) THEN "ValueError"
       ELSE IF TimeRaises(<<IntVal(parts[1]), IntVal(parts[2])>>)
            THEN "ValueError"
            ELSE "none"

\* The hour and minute numbers _parse_time hands to time().
Components(text) ==
    LET parts == Split(Strip(text))
    IN <<IntVal(parts[1]), IntVal(parts[2])>>

\* Variant: out-of-range numbers are clamped into range.
parse_time_str_Clamps(text) ==
    LET parts == Split(Strip(text))
        clamp(v, hi) == IF v < 0 THEN 0 ELSE IF v > hi THEN hi ELSE v
    IN IF ~IsInt(parts[1]) THEN [kind |-> "raise", error |-> "ValueError"]
       ELSE IF Len(parts) < 2 THEN [kind |-> "raise", error |-> "IndexError"]
       ELSE IF ~IsInt(parts[2]) THEN [kind |-> "raise", error |-> "ValueError"]
       ELSE [kind |-> "time",
             time |-> [hour |-> clamp(IntVal(parts[1]), 23),
                       minute |-> clamp(IntVal(parts[2]), 59)]]

\* Variant: the minute is the last part of the text.
parse_time_str_LastPart(text) ==
    LET parts == Split(Strip(text))
        last == parts[Len(parts)]
    IN IF ~IsInt(parts[1]) THEN [kind |-> "raise", error |-> "ValueError"]
       ELSE IF Len(parts) < 2 THEN [kind |-> "raise", error |-> "IndexError"]
       ELSE IF ~IsInt(last) THEN [kind |-> "raise", error |-> "ValueError"]
       ELSE IF TimeRaises(<<IntVal(parts[1]), IntVal(last)>>)
            THEN [kind |-> "raise", error |-> "ValueError"]
            ELSE [kind |-> "time",
                  time |-> parse_time(<<IntVal(parts[1]), IntVal(last)>>)]

\* Variant: a text that cannot be parsed is read as midnight.
parse_time_str_DefaultsMidnight(text) ==
    IF ParseError(text) # "none"
    THEN [kind |-> "time", time |-> [hour |-> 0, minute |-> 0]]
    ELSE [kind |-> "time", time |-> parse_time(Components(text))]

\* SleepOptimizer._parse_time on a text: the time, or the error raised.
parse_time_str(text) ==
    IF ParseError(text) # "none"
    THEN [kind |-> "raise", error |-> ParseError(text)]
    ELSE [kind |-> "time", time |-> parse_time(Components(text))]

\* ------------------------------------------------------------ notes
NotePivot == "Wake early at 4:00 AM for maximum productivity before Fajr"
NoteFajr == "Wake at Fajr time"
NoteWarning == "Warning: Less than minimum sleep duration available"
NoteAdjusted == "Adjusted to minimum 6.0 hours (may overlap with Isha buffer)"
NoteCapped == "Capped at maximum 7.5 hours"

None == "None"

\* ------------------------------------------------------------- state
VARIABLES
    optimizer,      \* the fields of the one SleepOptimizer instance
    pc,             \* position of the call: idle, window, chosen, returned, failed
    prayer_times,   \* the argument of the call
    sleep_start_dt, \* local of calculate_optimal_schedule
    fajr_dt,        \* local
    available,      \* fajr_dt - sleep_start_dt, in minutes
    wake_dt,        \* local
    duration_hours, \* local
    notes,          \* local
    raw,            \* the locals as they were before the bounds were enforced
    schedule,       \* the SleepSchedule returned, or None
    request,        \* the prayer times as posted, their times still text
    time_str,       \* the argument of a call of _parse_time alone
    parsed,         \* what that call returned or raised
    now,            \* the wall clock, in seconds since 00:00 of day 0
    sleep_schedule, \* the argument of get_time_until_sleep
    time_until,     \* what get_time_until_sleep returned
    first,          \* a remembered earlier call: its argument and result
    calls,          \* the frames of the concurrent calls, one per thread
    event,          \* the calendar event create_sleep_block has built
    buffered,       \* what a call of _add_time_buffer alone returned
    user_location,  \* the rows of the table user_location, in id order
    cache,          \* the rows of the table prayer_times_cache, in id order
    saved,          \* per (city, date): the prayer times cached last
    served,         \* the number of calls or requests begun
    gets,           \* the frames of the get_prayer_times calls, per thread
    full            \* the frames of the POST /sleep-schedule/full requests,
                    \* per thread

vars == <<optimizer, pc, prayer_times, sleep_start_dt, fajr_dt, available,
          wake_dt, duration_hours, notes, raw, schedule, request, time_str,
          parsed, now, sleep_schedule, time_until, first, calls, event,
          buffered, user_location, cache, saved, served, gets, full>>

\* The calendar, the tables and the calls of the services around the
\* optimizer.
serviceVars == <<event, buffered, user_location, cache, saved, served, gets,
                 full>>

\* The state outside the one sequential call of calculate_optimal_schedule.
others == <<time_str, parsed, now, sleep_schedule, time_until, first, calls,
            serviceVars>>

\* get_time_until_sleep has not been called.
NotAsked == [kind |-> "none"]

\* No call of _parse_time alone has ended.
NotParsed == [kind |-> "none"]

\* Nothing remembered yet.
NoFirst == [set |-> FALSE, prayer_times |-> None, schedule |-> None, at |-> 0]

\* No calendar event has been built.
NoEvent == [kind |-> "none"]

\* _add_time_buffer has not been called alone.
NotBuffered == [kind |-> "none"]

\* The frame of a thread that serves no POST /sleep-schedule/full.
IdleFull == [pc |-> "idle"]

\* The services as the module src/src/api/main.py has just made them, on
\* an empty database.
ServiceIdle ==
    /\ event = NoEvent
    /\ buffered = NotBuffered
    /\ user_location = <<>>
    /\ cache = <<>>
    /\ saved = <<>>
    /\ served = 0
    /\ gets = None
    /\ full = IdleFull

\* SleepOptimizer.__init__
SleepOptimizerInit ==
    [default_duration |-> DEFAULT_SLEEP_DURATION_HOURS,
     min_duration |-> MIN_SLEEP_DURATION_HOURS,
     max_duration |-> MAX_SLEEP_DURATION_HOURS,
     optimal_wake_hour |-> OPTIMAL_WAKE_TIME_HOUR,
     isha_buffer |-> ISHA_BUFFER_MINUTES,
     fajr_buffer |-> FAJR_BUFFER_MINUTES]

Init ==
    /\ optimizer = SleepOptimizerInit
    /\ pc = "idle"
    /\ prayer_times = None
    /\ sleep_start_dt = None
    /\ fajr_dt = None
    /\ available = None
    /\ wake_dt = None
    /\ duration_hours = None
    /\ notes = None
    /\ raw = None
    /\ schedule = None
    /\ request = None
    /\ time_str = None
    /\ parsed = NotParsed
    /\ now = 0
    /\ sleep_schedule = None
    /\ time_until = NotAsked
    /\ first = NoFirst
    /\ calls = None
    /\ ServiceIdle


\* The sequential call is idle and untouched.
CallIdle ==
    /\ optimizer = SleepOptimizerInit
    /\ pc = "idle"
    /\ prayer_times = None
    /\ sleep_start_dt = None
    /\ fajr_dt = None
    /\ available = None
    /\ wake_dt = None
    /\ duration_hours = None
    /\ notes = None
    /\ raw = None
    /\ schedule = None
    /\ request = None

callVars == <<optimizer, pc, prayer_times, sleep_start_dt, fajr_dt, available,
              wake_dt, duration_hours, notes, raw, schedule, request>>

\* --------------------------------------- calculate_optimal_schedule
\* Variant: the target date is today's date on the wall clock.
TargetDate_Today(pt) == now \div (24 * 60 * 60)

\* The target date: the date of the prayer times (no caller in the
\* repository passes another one).
TargetDate(pt) == pt.date

\* Variant: the buffer after Isha is left out.
SleepStartDt_NoBuffer(self, target_date, isha_time) ==
    Combine(target_date, isha_time)

\* Variant: the buffer is taken before Isha.
SleepStartDt_BufferBefore(self, target_date, isha_time) ==
    Combine(target_date, isha_time) - self.isha_buffer

\* Sleep start: Isha on the target date plus the buffer.
SleepStartDt(self, target_date, isha_time) ==
    Combine(target_date, isha_time) + self.isha_buffer

\* Variant: the pivot needs half an hour more than the maximum duration.
WakeChoice_MarginAboveMax(self, avail, fajr_time, fajr, optimal_wake) ==
    IF HoursAtLeast(avail, self.max_duration + 50)
       /\ fajr_time.hour > self.optimal_wake_hour
    THEN [wake_dt |-> optimal_wake, notes |-> NotePivot]
    ELSE IF HoursAtLeast(avail, self.min_duration)
         THEN [wake_dt |-> fajr - self.fajr_buffer, notes |-> NoteFajr]
         ELSE [wake_dt |-> fajr - self.fajr_buffer, notes |-> NoteWarning]

\* Variant: the pivot is also used when Fajr falls within the pivot hour.
WakeChoice_PivotInFajrHour(self, avail, fajr_time, fajr, optimal_wake) ==
    IF HoursAtLeast(avail, PLENTY_HOURS)
    THEN IF fajr_time.hour >= self.optimal_wake_hour
         THEN [wake_dt |-> optimal_wake, notes |-> NotePivot]
         ELSE [wake_dt |-> fajr - self.fajr_buffer, notes |-> NoteFajr]
    ELSE IF HoursAtLeast(avail, self.min_duration)
         THEN [wake_dt |-> fajr - self.fajr_buffer, notes |-> NoteFajr]
         ELSE [wake_dt |-> fajr - self.fajr_buffer, notes |-> NoteWarning]

\* Variant: the degenerate branch wakes at the pivot.
WakeChoice_DegenerateAtPivot(self, avail, fajr_time, fajr, optimal_wake) ==
    IF HoursAtLeast(avail, PLENTY_HOURS)
    THEN IF fajr_time.hour > self.optimal_wake_hour
         THEN [wake_dt |-> optimal_wake, notes |-> NotePivot]
         ELSE [wake_dt |-> fajr - self.fajr_buffer, notes |-> NoteFajr]
    ELSE IF HoursAtLeast(avail, self.min_duration)
         THEN [wake_dt |-> fajr - self.fajr_buffer, notes |-> NoteFajr]
         ELSE [wake_dt |-> optimal_wake, notes |-> NoteWarning]

\* The wake instant and the note of the branch taken.
WakeChoice(self, avail, fajr_time, fajr, optimal_wake) ==
    IF HoursAtLeast(avail, PLENTY_HOURS)
    THEN IF fajr_time.hour > self.optimal_wake_hour
         THEN [wake_dt |-> optimal_wake, notes |-> NotePivot]
         ELSE [wake_dt |-> fajr - self.fajr_buffer, notes |-> NoteFajr]
    ELSE IF HoursAtLeast(avail, self.min_duration)
         THEN [wake_dt |-> fajr - self.fajr_buffer, notes |-> NoteFajr]
         ELSE [wake_dt |-> fajr - self.fajr_buffer, notes |-> NoteWarning]

\* Variant: above the maximum the duration is set, the wake is left.
EnforceBounds_CapKeepsWake(self, start, wake, dur, n) ==
    IF dur < self.min_duration
    THEN [sleep_start_dt |-> wake - HoursDelta(self.min_duration),
          wake_dt |-> wake,
          duration_hours |-> self.min_duration,
          notes |-> NoteAdjusted]
    ELSE IF dur > self.max_duration
         THEN [sleep_start_dt |-> start,
               wake_dt |-> wake,
               duration_hours |-> self.max_duration,
               notes |-> NoteCapped]
         ELSE [sleep_start_dt |-> start,
               wake_dt |-> wake,
               duration_hours |-> dur,
               notes |-> n]

\* Variant: no correction below the minimum.
EnforceBounds_NoMin(self, start, wake, dur, n) ==
    IF dur > self.max_duration
    THEN [sleep_start_dt |-> start,
          wake_dt |-> start + HoursDelta(self.max_duration),
          duration_hours |-> self.max_duration,
          notes |-> NoteCapped]
    ELSE [sleep_start_dt |-> start,
          wake_dt |-> wake,
          duration_hours |-> dur,
          notes |-> n]

\* Variant: no cap above the maximum.
EnforceBounds_NoCap(self, start, wake, dur, n) ==
    IF dur < self.min_duration
    THEN [sleep_start_dt |-> wake - HoursDelta(self.min_duration),
          wake_dt |-> wake,
          duration_hours |-> self.min_duration,
          notes |-> NoteAdjusted]
    ELSE [sleep_start_dt |-> start,
          wake_dt |-> wake,
          duration_hours |-> dur,
          notes |-> n]

\* Variant: below the minimum the wake is moved, not the sleep start.
EnforceBounds_MinMovesWake(self, start, wake, dur, n) ==
    IF dur < self.min_duration
    THEN [sleep_start_dt |-> start,
          wake_dt |-> start + HoursDelta(self.min_duration),
          duration_hours |-> self.min_duration,
          notes |-> NoteAdjusted]
    ELSE IF dur > self.max_duration
         THEN [sleep_start_dt |-> start,
               wake_dt |-> start + HoursDelta(self.max_duration),
               duration_hours |-> self.max_duration,
               notes |-> NoteCapped]
         ELSE [sleep_start_dt |-> start,
               wake_dt |-> wake,
               duration_hours |-> dur,
               notes |-> n]

\* Variant: above the maximum the sleep start is moved, not the wake.
EnforceBounds_CapMovesStart(self, start, wake, dur, n) ==
    IF dur < self.min_duration
    THEN [sleep_start_dt |-> wake - HoursDelta(self.min_duration),
          wake_dt |-> wake,
          duration_hours |-> self.min_duration,
          notes |-> NoteAdjusted]
    ELSE IF dur > self.max_duration
         THEN [sleep_start_dt |-> wake - HoursDelta(self.max_duration),
               wake_dt |-> wake,
               duration_hours |-> self.max_duration,
               notes |-> NoteCapped]
         ELSE [sleep_start_dt |-> start,
               wake_dt |-> wake,
               duration_hours |-> dur,
               notes |-> n]

\* The adjustment that keeps the duration within the bounds.
EnforceBounds(self, start, wake, dur, n) ==
    IF dur < self.min_duration
    THEN [sleep_start_dt |-> wake - HoursDelta(self.min_duration),
          wake_dt |-> wake,
          duration_hours |-> self.min_duration,
          notes |-> NoteAdjusted]
    ELSE IF dur > self.max_duration
         THEN [sleep_start_dt |-> start,
               wake_dt |-> start + HoursDelta(self.max_duration),
               duration_hours |-> self.max_duration,
               notes |-> NoteCapped]
         ELSE [sleep_start_dt |-> start,
               wake_dt |-> wake,
               duration_hours |-> dur,
               notes |-> n]

\* The SleepSchedule built from the final locals.
MakeSchedule(pt, target_date, adj) ==
    [date |-> target_date,
     sleep_start |-> FormatTime(TimeOf(adj.sleep_start_dt)),
     sleep_end |-> FormatTime(TimeOf(adj.wake_dt)),
     duration_hours |-> adj.duration_hours,
     isha_time |-> pt.isha,
     fajr_time |-> pt.fajr,
     notes |-> adj.notes]

\* POST /sleep-schedule: the call, up to the available window.  A text that
\* time() rejects raises ValueError out of the call.
Call(d, isha, fajr) ==
    /\ pc = "idle"
    /\ prayer_times' = [date |-> d, isha |-> isha, fajr |-> fajr]
    /\ IF TimeRaises(isha) \/ TimeRaises(fajr)
       THEN /\ pc' = "failed"
            /\ UNCHANGED <<sleep_start_dt, fajr_dt, available>>
       ELSE /\ pc' = "window"
            /\ sleep_start_dt' = SleepStartDt(optimizer,
                                              TargetDate(prayer_times'),
                                              parse_time(isha))
            /\ fajr_dt' = Combine(TargetDate(prayer_times') + 1,
                                  parse_time(fajr))
            /\ available' = fajr_dt' - sleep_start_dt'
    /\ UNCHANGED <<optimizer, wake_dt, duration_hours, notes, raw, schedule>>

\* The branch on the available window, and the raw duration.
ChooseWake ==
    /\ pc = "window"
    /\ LET target_date == TargetDate(prayer_times)
           fajr_time == parse_time(prayer_times.fajr)
           optimal_wake_dt ==
               Combine(target_date + 1,
                       [hour |-> optimizer.optimal_wake_hour, minute |-> 0])
           w == WakeChoice(optimizer, available, fajr_time, fajr_dt,
                           optimal_wake_dt)
       IN /\ wake_dt' = w.wake_dt
          /\ notes' = w.notes
          /\ duration_hours' = RoundHours(w.wake_dt - sleep_start_dt)
          /\ raw' = [sleep_start_dt |-> sleep_start_dt,
                     wake_dt |-> w.wake_dt,
                     duration_hours |-> RoundHours(w.wake_dt - sleep_start_dt),
                     notes |-> w.notes]
    /\ pc' = "chosen"
    /\ UNCHANGED <<optimizer, prayer_times, sleep_start_dt, fajr_dt,
                   available, schedule, request>>
    /\ UNCHANGED others

\* The bounds, and the schedule returned.
Adjust ==
    /\ pc = "chosen"
    /\ LET adj == EnforceBounds(optimizer, sleep_start_dt, wake_dt,
                                duration_hours, notes)
       IN /\ sleep_start_dt' = adj.sleep_start_dt
          /\ wake_dt' = adj.wake_dt
          /\ duration_hours' = adj.duration_hours
          /\ notes' = adj.notes
          /\ schedule' = MakeSchedule(prayer_times, TargetDate(prayer_times), adj)
    /\ pc' = "returned"
    /\ UNCHANGED <<optimizer, prayer_times, fajr_dt, available, raw, request>>
    /\ UNCHANGED others

\* The request is over (response sent, or the error reported): the locals
\* are gone and the optimizer is ready for the next call.
Finish ==
    /\ pc \in {"returned", "failed"}
    /\ pc' = "idle"
    /\ prayer_times' = None
    /\ sleep_start_dt' = None
    /\ fajr_dt' = None
    /\ available' = None
    /\ wake_dt' = None
    /\ duration_hours' = None
    /\ notes' = None
    /\ raw' = None
    /\ schedule' = None
    /\ request' = None
    /\ UNCHANGED optimizer
    /\ UNCHANGED others

\* A client posts some prayer times.
Request ==
    /\ pc = "idle"
    /\ \E d \in Dates, isha \in TimeTexts, fajr \in TimeTexts :
           Call(d, isha, fajr)
    /\ UNCHANGED request
    /\ UNCHANGED others

Next ==
    \/ Request
    \/ ChooseWake
    \/ Adjust
    \/ Finish

Spec == Init /\ [][Next]_vars

\* calculate_optimal_schedule from its argument to its result.
calculate_optimal_schedule(self, pt) ==
    LET target_date == TargetDate(pt)
        start == SleepStartDt(self, target_date, parse_time(pt.isha))
        fajr == Combine(target_date + 1, parse_time(pt.fajr))
        optimal_wake ==
            Combine(target_date + 1,
                    [hour |-> self.optimal_wake_hour, minute |-> 0])
        w == WakeChoice(self, fajr - start, parse_time(pt.fajr), fajr,
                        optimal_wake)
        adj == EnforceBounds(self, start, w.wake_dt,
                             RoundHours(w.wake_dt - start), w.notes)
    IN MakeSchedule(pt, target_date, adj)

\* --------------------------------------------- get_time_until_sleep
SecondsPerDay == 24 * 60 * 60

\* The text returned for a number of seconds that is not negative.
UntilText(diff) ==
    LET hours == diff \div 3600
        minutes == (diff % 3600) \div 60
    IN [kind |-> "str",
        hours |-> hours,
        hour_word |-> IF hours > 0
                      THEN (IF hours # 1 THEN "hours" ELSE "hour")
                      ELSE "",
        minutes |-> minutes,
        minute_word |-> IF minutes # 1 THEN "minutes" ELSE "minute"]

\* Variant: a sleep time that has passed is not moved to the next day.
get_time_until_sleep_NoRoll(sched, n) ==
    LET sleep_time == parse_time(sched.sleep_start)
        sleep_dt == Combine(sched.date, sleep_time) * 60
        diff == sleep_dt - n
    IN IF diff < 0 THEN [kind |-> "None"] ELSE UntilText(diff)

\* Variant: nothing is returned at the sleep time itself.
get_time_until_sleep_NoneAtZero(sched, n) ==
    LET sleep_time == parse_time(sched.sleep_start)
        today == Combine(sched.date, sleep_time) * 60
        sleep_dt == IF today < n
                    THEN Combine(sched.date + 1, sleep_time) * 60
                    ELSE today
        diff == sleep_dt - n
    IN IF diff <= 0 THEN [kind |-> "None"] ELSE UntilText(diff)

\* SleepOptimizer.get_time_until_sleep at the time n of the wall clock.
get_time_until_sleep(sched, n) ==
    LET sleep_time == parse_time(sched.sleep_start)
        today == Combine(sched.date, sleep_time) * 60
        sleep_dt == IF today < n
                    THEN Combine(sched.date + 1, sleep_time) * 60
                    ELSE today
        diff == sleep_dt - n
    IN IF diff < 0 THEN [kind |-> "None"] ELSE UntilText(diff)

\* The schedules asked about: those of evening Isha times and two Fajr
\* times, which have their sleep start at Isha + 30 minutes or pulled
\* earlier by the minimum duration.
UntilSchedules ==
    {calculate_optimal_schedule(SleepOptimizerInit,
                                [date |-> d, isha |-> <<h, m>>, fajr |-> f]) :
         d \in Dates, h \in 17..23, m \in {0, 30, 59},
         f \in {<<5, 0>>, <<6, 30>>}}

\* The times of the wall clock: to the second around the full minute, on
\* the days of the schedules and the two days after.
Nows ==
    {d * SecondsPerDay + h * 3600 + m * 60 + s :
         d \in 0..(MaxDay + 2), h \in {0, 6, 12, 18, 19, 20, 21, 22, 23},
         m \in {0, 29, 30, 59}, s \in {0, 1, 59}}

InitUntil ==
    /\ CallIdle
    /\ time_str = None
    /\ parsed = NotParsed
    /\ now \in Nows
    /\ sleep_schedule \in UntilSchedules
    /\ time_until = NotAsked
    /\ first = NoFirst
    /\ calls = None
    /\ ServiceIdle

\* get_time_until_sleep(sleep_schedule) reads the clock and returns.
GetTimeUntilSleep ==
    /\ time_until.kind = "none"
    /\ time_until' = get_time_until_sleep(sleep_schedule, now)
    /\ UNCHANGED <<time_str, parsed, now, sleep_schedule, first, calls>>
    /\ UNCHANGED callVars
    /\ UNCHANGED serviceVars

NextUntil == GetTimeUntilSleep

SpecUntil == InitUntil /\ [][NextUntil]_vars

\* ------------------------------------------------- _parse_time alone
\* The longest text parsed.
MaxTextLen == 5

InitParse ==
    /\ CallIdle
    /\ time_str \in TextsUpTo(MaxTextLen)
    /\ parsed = NotParsed
    /\ now = 0
    /\ sleep_schedule = None
    /\ time_until = NotAsked
    /\ first = NoFirst
    /\ calls = None
    /\ ServiceIdle

\* _parse_time(time_str) returns or raises.
ParseTime ==
    /\ parsed.kind = "none"
    /\ parsed' = parse_time_str(time_str)
    /\ UNCHANGED <<time_str, now, sleep_schedule, time_until, first, calls>>
    /\ UNCHANGED callVars
    /\ UNCHANGED serviceVars

NextParse == ParseTime

SpecParse == InitParse /\ [][NextParse]_vars

\* ------------------------------------- the call on prayer times as text
\* Texts _parse_time accepts, among them one with seconds, one with blanks
\* around it and one without leading zeros.
GoodTexts ==
    {<<"1", "9", ":", "0", "0">>,
     <<"2", "3", ":", "3", "0">>,
     <<"2", "0", ":", "0", "0">>,
     <<"0", "5", ":", "3", "0">>,
     <<"0", "4", ":", "3", "0">>,
     <<"5", ":", "0">>,
     <<"1", "9", ":", "0", "0", ":", "3", "0">>,
     <<" ", "2", "0", ":", "0", "0", " ">>}

\* Texts _parse_time rejects: numbers out of range, no separator, the empty
\* text, parts that are not numbers, a negative hour, no hour.
BadTexts ==
    {<<"2", "5", ":", "9", "9">>,
     <<"2", "4", ":", "0", "0">>,
     <<"1", "2", ":", "6", "0">>,
     <<"1", "9", "0", "0">>,
     <<>>,
     <<"x", "9", ":", "0", "0">>,
     <<"1", "9", ":", "x", "0">>,
     <<"-", "5", ":", "0", "0">>,
     <<":", "3", "0">>}

SampleTexts == GoodTexts \cup BadTexts

\* calculate_optimal_schedule on posted texts: both are parsed before
\* anything is computed, and an error of _parse_time leaves the call.
CallText(d, isha_text, fajr_text) ==
    /\ pc = "idle"
    /\ request' = [date |-> d, isha |-> isha_text, fajr |-> fajr_text]
    /\ LET i == parse_time_str(isha_text)
           f == parse_time_str(fajr_text)
       IN IF i.kind = "raise" \/ f.kind = "raise"
          THEN /\ pc' = "failed"
               /\ UNCHANGED <<optimizer, prayer_times, sleep_start_dt,
                              fajr_dt, available, wake_dt, duration_hours,
                              notes, raw, schedule>>
          ELSE Call(d, FormatTime(i.time), FormatTime(f.time))

\* A client posts prayer times, well-formed or not.
RequestText ==
    /\ pc = "idle"
    /\ \E d \in Dates, isha_text \in SampleTexts, fajr_text \in SampleTexts :
           CallText(d, isha_text, fajr_text)
    /\ UNCHANGED others

NextText ==
    \/ RequestText
    \/ ChooseWake
    \/ Adjust
    \/ Finish

SpecText == Init /\ [][NextText]_vars

\* --------------------------------------- calls at different times
\* A few prayer times, which between them take every branch and both
\* corrections.
FewIsha == {<<19, 0>>, <<20, 0>>, <<22, 0>>, <<23, 30>>}
FewFajr == {<<4, 30>>, <<5, 0>>, <<5, 30>>, <<6, 30>>}

\* The times the wall clock is read at: midnight and noon of a few days.
ClockTimes ==
    {d * SecondsPerDay + s : d \in 0..(MaxDay + 1), s \in {0, 12 * 3600}}

\* A client posts one of the few prayer times.
RequestFew ==
    /\ pc = "idle"
    /\ \E d \in Dates, isha \in FewIsha, fajr \in FewFajr : Call(d, isha, fajr)
    /\ UNCHANGED request
    /\ UNCHANGED others

\* Time passes.
Tick ==
    /\ \E n \in ClockTimes : n > now /\ now' = n
    /\ UNCHANGED <<time_str, parsed, sleep_schedule, time_until, first, calls>>
    /\ UNCHANGED callVars
    /\ UNCHANGED serviceVars

\* The call that has returned ends, and is the one remembered: its
\* argument, its result and the time of the wall clock.
Remember ==
    /\ pc = "returned"
    /\ ~first.set
    /\ first' = [set |-> TRUE, prayer_times |-> prayer_times,
                 schedule |-> schedule, at |-> now]
    /\ pc' = "idle"
    /\ prayer_times' = None
    /\ sleep_start_dt' = None
    /\ fajr_dt' = None
    /\ available' = None
    /\ wake_dt' = None
    /\ duration_hours' = None
    /\ notes' = None
    /\ raw' = None
    /\ schedule' = None
    /\ UNCHANGED <<optimizer, request>>
    /\ UNCHANGED <<time_str, parsed, now, sleep_schedule, time_until, calls>>
    /\ UNCHANGED serviceVars

NextClock ==
    \/ RequestFew
    \/ ChooseWake
    \/ Adjust
    \/ Finish
    \/ Remember
    \/ Tick

SpecClock == Init /\ [][NextClock]_vars

\* -------------------------------------------------- concurrent calls
\* The requests served at the same time, each by a thread of the pool.
NumThreads == 2
Threads == 1..NumThreads

\* The prayer times the concurrent requests post.
ConcIsha == {<<19, 0>>, <<22, 0>>, <<23, 30>>}
ConcFajr == {<<5, 0>>, <<6, 30>>}

\* The frame of a thread that is in no call.
IdleFrame ==
    [pc |-> "idle", prayer_times |-> None, sleep_start_dt |-> None,
     fajr_dt |-> None, available |-> None, wake_dt |-> None,
     duration_hours |-> None, notes |-> None, schedule |-> None]

InitConc ==
    /\ CallIdle
    /\ time_str = None
    /\ parsed = NotParsed
    /\ now = 0
    /\ sleep_schedule = None
    /\ time_until = NotAsked
    /\ first = NoFirst
    /\ calls = [t \in Threads |-> IdleFrame]
    /\ ServiceIdle

concFrame == <<pc, prayer_times, sleep_start_dt, fajr_dt, available, wake_dt,
               duration_hours, notes, raw, schedule, request, time_str,
               parsed, now, sleep_schedule, time_until, first, serviceVars>>

\* Thread t enters calculate_optimal_schedule on the shared optimizer.
TCall(t, d, isha, fajr) ==
    /\ calls[t].pc = "idle"
    /\ LET pt == [date |-> d, isha |-> isha, fajr |-> fajr]
           start == SleepStartDt(optimizer, TargetDate(pt), parse_time(isha))
           fajr_at == Combine(TargetDate(pt) + 1, parse_time(fajr))
       IN calls' = [calls EXCEPT ![t] =
                       [@ EXCEPT !.pc = "window",
                                 !.prayer_times = pt,
                                 !.sleep_start_dt = start,
                                 !.fajr_dt = fajr_at,
                                 !.available = fajr_at - start]]
    /\ UNCHANGED optimizer
    /\ UNCHANGED concFrame

\* Thread t takes its branch.
TChooseWake(t) ==
    /\ calls[t].pc = "window"
    /\ LET c == calls[t]
           optimal_wake_dt ==
               Combine(TargetDate(c.prayer_times) + 1,
                       [hour |-> optimizer.optimal_wake_hour, minute |-> 0])
           w == WakeChoice(optimizer, c.available,
                           parse_time(c.prayer_times.fajr), c.fajr_dt,
                           optimal_wake_dt)
       IN calls' = [calls EXCEPT ![t] =
                       [@ EXCEPT !.pc = "chosen",
                                 !.wake_dt = w.wake_dt,
                                 !.notes = w.notes,
                                 !.duration_hours =
                                     RoundHours(w.wake_dt - c.sleep_start_dt)]]
    /\ UNCHANGED optimizer
    /\ UNCHANGED concFrame

\* Variant: the correction below the minimum gives up the Isha buffer of
\* the optimizer itself.
TAdjust_ClearsBuffer(t) ==
    /\ calls[t].pc = "chosen"
    /\ LET c == calls[t]
           adj == EnforceBounds(optimizer, c.sleep_start_dt, c.wake_dt,
                                c.duration_hours, c.notes)
       IN /\ calls' = [calls EXCEPT ![t] =
                          [@ EXCEPT !.pc = "returned",
                                    !.sleep_start_dt = adj.sleep_start_dt,
                                    !.wake_dt = adj.wake_dt,
                                    !.duration_hours = adj.duration_hours,
                                    !.notes = adj.notes,
                                    !.schedule =
                                        MakeSchedule(c.prayer_times,
                                                     TargetDate(c.prayer_times),
                                                     adj)]]
          /\ optimizer' = IF c.duration_hours < optimizer.min_duration
                          THEN [optimizer EXCEPT !.isha_buffer = 0]
                          ELSE optimizer
    /\ UNCHANGED concFrame

\* Thread t enforces the bounds and returns its schedule.
TAdjust(t) ==
    /\ calls[t].pc = "chosen"
    /\ LET c == calls[t]
           adj == EnforceBounds(optimizer, c.sleep_start_dt, c.wake_dt,
                                c.duration_hours, c.notes)
       IN calls' = [calls EXCEPT ![t] =
                       [@ EXCEPT !.pc = "returned",
                                 !.sleep_start_dt = adj.sleep_start_dt,
                                 !.wake_dt = adj.wake_dt,
                                 !.duration_hours = adj.duration_hours,
                                 !.notes = adj.notes,
                                 !.schedule =
                                     MakeSchedule(c.prayer_times,
                                                  TargetDate(c.prayer_times),
                                                  adj)]]
    /\ UNCHANGED optimizer
    /\ UNCHANGED concFrame

\* The request of thread t is over.
TFinish(t) ==
    /\ calls[t].pc = "returned"
    /\ calls' = [calls EXCEPT ![t] = IdleFrame]
    /\ UNCHANGED optimizer
    /\ UNCHANGED concFrame

NextConc ==
    \/ \E t \in Threads, d \in Dates, isha \in ConcIsha, fajr \in ConcFajr :
           TCall(t, d, isha, fajr)
    \/ \E t \in Threads : TChooseWake(t)
    \/ \E t \in Threads : TAdjust(t)
    \/ \E t \in Threads : TFinish(t)

SpecConc == InitConc /\ [][NextConc]_vars

\* ------------------------------------------------- create_sleep_block
\* GoogleCalendarService.create_sleep_block: the start and the end of the
\* event inserted for a schedule.
create_sleep_block(sched) ==
    [kind |-> "event",
     start_dt |-> Combine(sched.date, parse_time(sched.sleep_start)),
     end_dt |-> Combine(sched.date + 1, parse_time(sched.sleep_end))]

\* The schedule returned is put on the calendar; without credentials, or
\* when the calendar refuses the event, create_sleep_block returns None.
CreateSleepBlock ==
    /\ pc = "returned"
    /\ event.kind = "none"
    /\ \E inserted \in BOOLEAN :
           event' = IF inserted THEN create_sleep_block(schedule)
                                ELSE [kind |-> "None"]
    /\ UNCHANGED callVars
    /\ UNCHANGED <<time_str, parsed, now, sleep_schedule, time_until, first,
                   calls>>
    /\ UNCHANGED <<buffered, user_location, cache, saved, served, gets, full>>

\* The request is over, with or without an event.
FinishBlock ==
    /\ pc \in {"returned", "failed"}
    /\ pc' = "idle"
    /\ prayer_times' = None
    /\ sleep_start_dt' = None
    /\ fajr_dt' = None
    /\ available' = None
    /\ wake_dt' = None
    /\ duration_hours' = None
    /\ notes' = None
    /\ raw' = None
    /\ schedule' = None
    /\ request' = None
    /\ event' = NoEvent
    /\ UNCHANGED optimizer
    /\ UNCHANGED <<time_str, parsed, now, sleep_schedule, time_until, first,
                   calls>>
    /\ UNCHANGED <<buffered, user_location, cache, saved, served, gets, full>>

NextCalendar ==
    \/ Request
    \/ ChooseWake
    \/ Adjust
    \/ CreateSleepBlock
    \/ FinishBlock

SpecCalendar == Init /\ [][NextCalendar]_vars

\* --------------------------------------------------- _add_time_buffer
\* config/settings.py: the minutes added to every prayer time fetched.
PRAYER_TIME_SAFETY_BUFFER == 15

DigitChar(n) ==
    CASE n = 0 -> "0" [] n = 1 -> "1" [] n = 2 -> "2" [] n = 3 -> "3"
      [] n = 4 -> "4" [] n = 5 -> "5" [] n = 6 -> "6" [] n = 7 -> "7"
      [] n = 8 -> "8" [] n = 9 -> "9"

\* time.strftime('%H:%M'), as text
StrfTime(t) ==
    <<DigitChar(t.hour \div 10), DigitChar(t.hour % 10), ":",
      DigitChar(t.minute \div 10), DigitChar(t.minute % 10)>>

\* The text of the time of day m minutes after a midnight.
ClockText(m) ==
    StrfTime([hour |-> (m % (24 * 60)) \div 60, minute |-> m % 60])

\* hour, minute = map(int, time_str.split(':')) and replace(hour=, minute=)
\* raise nothing: the text has exactly two parts, int() accepts both, and
\* the numbers are an hour and a minute.
BufferParses(text) ==
    LET parts == Split(text)
    IN /\ Len(parts) = 2
       /\ IsInt(parts[1])
       /\ IsInt(parts[2])
       /\ ~TimeRaises(<<IntVal(parts[1]), IntVal(parts[2])>>)

\* Variant: the buffer is added on the clock of one day, without wrapping.
add_time_buffer_NoWrap(text) ==
    IF BufferParses(text)
    THEN LET parts == Split(text)
             m == IntVal(parts[1]) * 60 + IntVal(parts[2])
                     + PRAYER_TIME_SAFETY_BUFFER
         IN StrfTime([hour |-> m \div 60, minute |-> m % 60])
    ELSE text

\* PrayerTimesService._add_time_buffer: the time of day the buffer after
\* the time of the text, or the text itself when anything raises.
add_time_buffer(text) ==
    IF BufferParses(text)
    THEN LET parts == Split(text)
             time_obj == Combine(0, [hour |-> IntVal(parts[1]),
                                     minute |-> IntVal(parts[2])])
             buffered_time == time_obj + PRAYER_TIME_SAFETY_BUFFER
         IN StrfTime(TimeOf(buffered_time))
    ELSE text

\* Every time of day, as strftime('%H:%M') writes it.
ClockTexts ==
    {StrfTime([hour |-> h, minute |-> m]) : h \in 0..23, m \in 0..59}

InitBuffer ==
    /\ CallIdle
    /\ time_str \in TextsUpTo(MaxTextLen) \cup ClockTexts
    /\ parsed = NotParsed
    /\ now = 0
    /\ sleep_schedule = None
    /\ time_until = NotAsked
    /\ first = NoFirst
    /\ calls = None
    /\ ServiceIdle

\* _add_time_buffer(time_str) returns.
AddTimeBuffer ==
    /\ buffered.kind = "none"
    /\ buffered' = [kind |-> "str", text |-> add_time_buffer(time_str)]
    /\ UNCHANGED <<time_str, parsed, now, sleep_schedule, time_until, first,
                   calls>>
    /\ UNCHANGED callVars
    /\ UNCHANGED <<event, user_location, cache, saved, served, gets, full>>

NextBuffer == AddTimeBuffer

SpecBuffer == InitBuffer /\ [][NextBuffer]_vars

\* ---------------------------------------------------- LocationService
\* Latitudes and longitudes are in ten-thousandths of a degree.
UZBEKISTAN_CITIES ==
    <<[city |-> "Tashkent", lat |-> 412995, lon |-> 692401],
      [city |-> "Samarkand", lat |-> 396542, lon |-> 669597],
      [city |-> "Bukhara", lat |-> 397681, lon |-> 644549],
      [city |-> "Andijan", lat |-> 407821, lon |-> 723442],
      [city |-> "Namangan", lat |-> 409983, lon |-> 716726],
      [city |-> "Fergana", lat |-> 403864, lon |-> 717864],
      [city |-> "Nukus", lat |-> 424531, lon |-> 596103],
      [city |-> "Karshi", lat |-> 388606, lon |-> 657975],
      [city |-> "Termez", lat |-> 372242, lon |-> 672783],
      [city |-> "Urgench", lat |-> 415500, lon |-> 606333],
      [city |-> "Khiva", lat |-> 413775, lon |-> 603639],
      [city |-> "Jizzakh", lat |-> 401158, lon |-> 678422],
      [city |-> "Guliston", lat |-> 404897, lon |-> 687842],
      [city |-> "Margilan", lat |-> 404708, lon |-> 717247]>>

\* The square of a number, as <<millions, rest>>: the squares of the
\* distances do not fit the integers of the checker.
Square(x) ==
    LET a == IF x < 0 THEN 0 - x ELSE x
        ah == a \div 1000
        al == a % 1000
        mid == 2 * ah * al
        rest == (mid % 1000) * 1000 + al * al
    IN <<ah * ah + mid \div 1000 + rest \div 1000000, rest % 1000000>>

Plus(p, q) ==
    <<p[1] + q[1] + (p[2] + q[2]) \div 1000000, (p[2] + q[2]) % 1000000>>

\* The outcomes of `distance < min_distance` for the distances whose
\* squares are p and q.  The code compares floats: of two distances that
\* are exactly equal either may come out the smaller by the rounding of
\* the squares and the root, or neither; distances that differ compare as
\* the exact ones do.
Less(p, q) ==
    IF p = q
    THEN BOOLEAN
    ELSE {p[1] < q[1] \/ (p[1] = q[1] /\ p[2] < q[2])}

\* The square of the distance of _find_nearest_city to the i-th city.
Distance2(latitude, longitude, i) ==
    Plus(Square(latitude - UZBEKISTAN_CITIES[i].lat),
         Square(longitude - UZBEKISTAN_CITIES[i].lon))

\* LocationService._find_nearest_city: the cities the loop can end with.
\* A city is kept when its distance compared less than that of every city
\* before it and no city after it compared less: one city, unless the
\* nearest cities are at exactly the same distance.
find_nearest_city(latitude, longitude) ==
    LET n == Len(UZBEKISTAN_CITIES)
        D(i) == Distance2(latitude, longitude, i)
    IN {UZBEKISTAN_CITIES[i].city : i \in
           {i \in 1..n :
               /\ \A j \in 1..(i - 1) : TRUE \in Less(D(i), D(j))
               /\ \A j \in (i + 1)..n : FALSE \in Less(D(j), D(i))}}

\* The bounding box of get_location_from_gps.
is_uzbekistan(latitude, longitude) ==
    /\ 370000 <= latitude /\ latitude <= 455000
    /\ 555000 <= longitude /\ longitude <= 732000

\* The LocationInfos get_location_from_gps can return: one, unless the
\* nearest cities are at exactly the same distance.
LocationOf(latitude, longitude) ==
    IF is_uzbekistan(latitude, longitude)
    THEN {[city |-> city,
           country |-> "Uzbekistan",
           latitude |-> latitude,
           longitude |-> longitude,
           timezone |-> "Asia/Tashkent",
           is_uzbekistan |-> TRUE] :
              city \in find_nearest_city(latitude, longitude)}
    ELSE {[city |-> "Unknown",
           country |-> "Unknown",
           latitude |-> latitude,
           longitude |-> longitude,
           timezone |-> "Asia/Tashkent",
           is_uzbekistan |-> FALSE]}

\* query.first(): the first of the rows that match, given by their
\* indices, or 0 when none does.
FirstRow(matching) ==
    IF matching = {}
    THEN 0
    ELSE CHOOSE i \in matching : \A j \in matching : i <= j

\* The query of _save_location, filter_by(city=).first(): the index of
\* the first row of the city, or 0.
existing_location(table, city) ==
    FirstRow({i \in 1..Len(table) : table[i].city = city})

\* The rest of _save_location: the row found is updated, or a row is
\* added, and the session is committed.  When that raises, the except
\* clause rolls back and the table is as it was.
save_location(table, existing, location, at, raises) ==
    IF raises
    THEN table
    ELSE IF existing # 0
         THEN [table EXCEPT ![existing] =
                  [@ EXCEPT !.latitude = location.latitude,
                            !.longitude = location.longitude,
                            !.country = location.country,
                            !.timezone = location.timezone,
                            !.last_updated = at]]
         ELSE Append(table, [city |-> location.city,
                             country |-> location.country,
                             latitude |-> location.latitude,
                             longitude |-> location.longitude,
                             timezone |-> location.timezone,
                             last_updated |-> at])

\* The places requests come from: the centre of Tashkent, a town north-east
\* of it, London and Mecca.
GpsPoints ==
    {<<412995, 692401>>, <<414689, 695822>>, <<515074, -1278>>,
     <<214225, 398262>>}

\* -------------------------------------------------- PrayerTimesService
\* A result that is None.
NoPrayerTimes == [kind |-> "None"]

Prayers == {"fajr", "sunrise", "dhuhr", "asr", "maghrib", "isha"}

\* The timings the provider answers with for a place and a date, as texts:
\* they differ from place to place and from day to day, and those of
\* places outside Uzbekistan carry the name of a time zone.
Timings(location, d) ==
    LET shift == ((location.latitude \div 1000) % 60) + d
        zone == IF location.is_uzbekistan THEN <<>>
                ELSE <<" ", "(", "U", "T", "C", ")">>
        at(h, m) == ClockText(h * 60 + m + shift) \o zone
    IN [fajr |-> at(4, 0), sunrise |-> at(5, 30), dhuhr |-> at(12, 0),
        asr |-> at(15, 0), maghrib |-> at(18, 0), isha |-> at(19, 30)]

\* What a request to the provider ends in: an error of the connection or
\* of HTTP, an answer whose code is not 200, or the timings.
Responses(location, d) ==
    {[kind |-> "error"], [kind |-> "refused"],
     [kind |-> "timings", timings |-> Timings(location, d)]}

\* str.split()[0]: the text up to its first blank, leading blanks skipped
\* (the empty text when there is none, where Python raises IndexError).
FirstToken(s) ==
    LET t == LStrip(s)
        n == IF \E i \in 1..Len(t) : t[i] = " "
             THEN CHOOSE i \in 1..Len(t) :
                      t[i] = " " /\ \A j \in 1..(i - 1) : t[j] # " "
             ELSE Len(t) + 1
    IN SubSeq(t, 1, n - 1)

\* PrayerTimesService._fetch_from_aladhan: the timings with the safety
\* buffer added, for the location asked about; None on every error.
fetch_from_aladhan(location, d, response) ==
    IF response.kind # "timings"
    THEN NoPrayerTimes
    ELSE IF \E p \in Prayers : FirstToken(response.timings[p]) = <<>>
         THEN NoPrayerTimes
         ELSE [kind |-> "PrayerTimes",
               date |-> d,
               fajr |-> add_time_buffer(FirstToken(response.timings.fajr)),
               sunrise |->
                   add_time_buffer(FirstToken(response.timings.sunrise)),
               dhuhr |-> add_time_buffer(FirstToken(response.timings.dhuhr)),
               asr |-> add_time_buffer(FirstToken(response.timings.asr)),
               maghrib |->
                   add_time_buffer(FirstToken(response.timings.maghrib)),
               isha |-> add_time_buffer(FirstToken(response.timings.isha)),
               city |-> location.city,
               country |-> location.country,
               latitude |-> location.latitude,
               longitude |-> location.longitude]

\* The rows of the cache are kept in the order of their ids.  The id of a
\* row added is one more than the greatest id in the table.
NextId(table) ==
    IF table = <<>> THEN 1 ELSE table[Len(table)].id + 1

\* The index of the row with an id, or 0 when the row is gone.
RowWithId(table, id) ==
    FirstRow({i \in 1..Len(table) : table[i].id = id})

\* The first row of the cache for a city and a date: the query
\* filter_by(city=, date=).first() of _get_from_cache and _save_to_cache.
\* Its index, or 0.
cached_row(table, city, d) ==
    FirstRow({i \in 1..Len(table) :
                  table[i].city = city /\ table[i].date = d})

\* PrayerTimesService._get_from_cache: when the query raises, the except
\* clause returns None whatever the cache holds.
get_from_cache(table, city, d, raises) ==
    LET i == cached_row(table, city, d)
    IN IF raises \/ i = 0
       THEN NoPrayerTimes
       ELSE [kind |-> "PrayerTimes",
             date |-> table[i].date,
             fajr |-> table[i].fajr,
             sunrise |-> table[i].sunrise,
             dhuhr |-> table[i].dhuhr,
             asr |-> table[i].asr,
             maghrib |-> table[i].maghrib,
             isha |-> table[i].isha,
             city |-> table[i].city,
             country |-> table[i].country,
             latitude |-> table[i].latitude,
             longitude |-> table[i].longitude]

\* The rest of _save_to_cache after its query: the row found, given by
\* its id, gets the six times, or a row is added, and the session is
\* committed.  When that raises, the except clause rolls back and the
\* table is as it was.  A row found that has been deleted since is not
\* written.
save_to_cache(table, existing, pt, at, raises) ==
    LET i == RowWithId(table, existing)
    IN IF raises
       THEN table
       ELSE IF existing # 0
            THEN IF i = 0
                 THEN table
                 ELSE [table EXCEPT ![i] =
                          [@ EXCEPT !.fajr = pt.fajr,
                                    !.sunrise = pt.sunrise,
                                    !.dhuhr = pt.dhuhr,
                                    !.asr = pt.asr,
                                    !.maghrib = pt.maghrib,
                                    !.isha = pt.isha]]
            ELSE Append(table, [id |-> NextId(table),
                                date |-> pt.date,
                                city |-> pt.city,
                                country |-> pt.country,
                                latitude |-> pt.latitude,
                                longitude |-> pt.longitude,
                                fajr |-> pt.fajr,
                                sunrise |-> pt.sunrise,
                                dhuhr |-> pt.dhuhr,
                                asr |-> pt.asr,
                                maghrib |-> pt.maghrib,
                                isha |-> pt.isha,
                                created_at |-> at])

\* PrayerTimesService.cleanup_old_cache: the rows of the dates before
\* today less PRAYER_TIMES_CACHE_DAYS are deleted.  When that raises, the
\* except clause rolls back and the table is as it was.
PRAYER_TIMES_CACHE_DAYS == 30

cleanup_old_cache(table, today, raises) ==
    LET Recent(row) == ~(row.date < today - PRAYER_TIMES_CACHE_DAYS)
    IN IF raises THEN table ELSE SelectSeq(table, Recent)

\* ------------------------------- concurrent calls of get_prayer_times
\* The calls of get_prayer_times that are begun.
MaxCalls == 3

\* The places asked about.
ServicePoints == GpsPoints

\* Their locations, as get_location_from_gps gives them.
ServiceLocations ==
    UNION {LocationOf(point[1], point[2]) : point \in ServicePoints}

\* A day that cleanup_old_cache no longer keeps on day 0.
OldDay == 0 - (PRAYER_TIMES_CACHE_DAYS + 1)

\* The dates asked about: a day long past and the last day.
ServiceDates == {OldDay, MaxDay}

\* The frame of a thread that is in no call of get_prayer_times.  entry is
\* what the cache held for the city and the date when the call began,
\* cached what _get_from_cache returned, asked whether the provider was
\* asked, existing the id of the row _save_to_cache found, wrote whether
\* the call wrote the cache.
IdleGet ==
    [pc |-> "idle",
     location |-> CHOOSE location \in LocationOf(0, 0) : TRUE,
     target_date |-> 0, use_cache |-> TRUE, entry |-> NoPrayerTimes,
     cached |-> NoPrayerTimes, asked |-> FALSE,
     prayer_times |-> NoPrayerTimes, existing |-> 0, wrote |-> FALSE,
     result |-> NoPrayerTimes]

InitService ==
    /\ CallIdle
    /\ time_str = None
    /\ parsed = NotParsed
    /\ now = 0
    /\ sleep_schedule = None
    /\ time_until = NotAsked
    /\ first = NoFirst
    /\ calls = None
    /\ event = NoEvent
    /\ buffered = NotBuffered
    /\ user_location = <<>>
    /\ cache = <<>>
    /\ saved = <<>>
    /\ served = 0
    /\ gets = [t \in Threads |-> IdleGet]
    /\ full = [t \in Threads |-> IdleFull]

getFrame == <<time_str, parsed, now, sleep_schedule, time_until, first, calls,
              event, buffered, user_location, full>>

\* Variant: the cache is not looked at before the provider is asked.
EnterGet_IgnoresCache(table, location, d, use_cache, raises) ==
    [IdleGet EXCEPT
         !.pc = "fetch",
         !.location = location,
         !.target_date = d,
         !.use_cache = use_cache,
         !.entry = get_from_cache(table, location.city, d, FALSE),
         !.cached = IF use_cache
                    THEN get_from_cache(table, location.city, d, raises)
                    ELSE NoPrayerTimes]

\* The frame of a call of get_prayer_times after its first lines: with
\* use_cache the city and the date are looked up in the cache, and an
\* entry found is returned.
EnterGet(table, location, d, use_cache, raises) ==
    LET cached == IF use_cache
                  THEN get_from_cache(table, location.city, d, raises)
                  ELSE NoPrayerTimes
    IN [IdleGet EXCEPT
            !.pc = IF cached.kind # "None" THEN "done" ELSE "fetch",
            !.location = location,
            !.target_date = d,
            !.use_cache = use_cache,
            !.entry = get_from_cache(table, location.city, d, FALSE),
            !.cached = cached,
            !.result = cached]

\* The outcomes of the lookup: without use_cache there is none to raise.
LookupRaises(use_cache) == IF use_cache THEN BOOLEAN ELSE {FALSE}

TGet_IgnoresCache(t, location, d, use_cache) ==
    /\ gets[t].pc = "idle"
    /\ served < MaxCalls
    /\ served' = served + 1
    /\ \E raises \in LookupRaises(use_cache) :
           gets' = [gets EXCEPT ![t] =
                       EnterGet_IgnoresCache(cache, location, d, use_cache,
                                             raises)]
    /\ UNCHANGED <<cache, saved>>
    /\ UNCHANGED callVars
    /\ UNCHANGED getFrame

\* Thread t enters get_prayer_times on the shared service.
TGet(t, location, d, use_cache) ==
    /\ gets[t].pc = "idle"
    /\ served < MaxCalls
    /\ served' = served + 1
    /\ \E raises \in LookupRaises(use_cache) :
           gets' = [gets EXCEPT ![t] =
                       EnterGet(cache, location, d, use_cache, raises)]
    /\ UNCHANGED <<cache, saved>>
    /\ UNCHANGED callVars
    /\ UNCHANGED getFrame

\* Thread t asks the provider: without timings None is returned.
TFetch(t) ==
    /\ gets[t].pc = "fetch"
    /\ \E response \in Responses(gets[t].location, gets[t].target_date) :
           LET pt == fetch_from_aladhan(gets[t].location,
                                        gets[t].target_date, response)
           IN gets' = [gets EXCEPT ![t] =
                          [@ EXCEPT
                               !.pc = IF pt.kind = "None" THEN "done"
                                                          ELSE "save",
                               !.asked = TRUE,
                               !.prayer_times = pt]]
    /\ UNCHANGED <<cache, saved, served>>
    /\ UNCHANGED callVars
    /\ UNCHANGED getFrame

\* Thread t, in _save_to_cache, queries the row of the city and the date.
\* When the query raises nothing is saved, and get_prayer_times returns
\* the prayer times fetched.
TSaveQuery(t) ==
    /\ gets[t].pc = "save"
    /\ \E raises \in BOOLEAN :
           LET pt == gets[t].prayer_times
               i == cached_row(cache, pt.city, pt.date)
           IN gets' = [gets EXCEPT ![t] =
                          IF raises
                          THEN [@ EXCEPT !.pc = "done", !.result = pt]
                          ELSE [@ EXCEPT
                                    !.pc = "write",
                                    !.existing = IF i = 0 THEN 0
                                                 ELSE cache[i].id]]
    /\ UNCHANGED <<cache, saved, served>>
    /\ UNCHANGED callVars
    /\ UNCHANGED getFrame

\* Thread t updates the row it found, or adds one, commits, and returns
\* the prayer times fetched.
TSaveWrite(t) ==
    /\ gets[t].pc = "write"
    /\ \E raises \in BOOLEAN :
           LET pt == gets[t].prayer_times
               written == /\ ~raises
                          /\ \/ gets[t].existing = 0
                             \/ RowWithId(cache, gets[t].existing) # 0
           IN /\ cache' = save_to_cache(cache, gets[t].existing, pt, now,
                                        raises)
              /\ saved' = IF written
                          THEN (<<pt.city, pt.date>> :> pt) @@ saved
                          ELSE saved
              /\ gets' = [gets EXCEPT ![t] =
                             [@ EXCEPT !.pc = "done",
                                       !.wrote = written,
                                       !.result = pt]]
    /\ UNCHANGED served
    /\ UNCHANGED callVars
    /\ UNCHANGED getFrame

\* The caller of thread t has its result.
TReturn(t) ==
    /\ gets[t].pc = "done"
    /\ gets' = [gets EXCEPT ![t] = IdleGet]
    /\ UNCHANGED <<cache, saved, served>>
    /\ UNCHANGED callVars
    /\ UNCHANGED getFrame

\* cleanup_old_cache is called on the shared service.
CleanupOldCache ==
    /\ \E raises \in BOOLEAN :
           cache' = cleanup_old_cache(cache, now \div SecondsPerDay, raises)
    /\ cache' # cache
    /\ UNCHANGED <<saved, served, gets>>
    /\ UNCHANGED callVars
    /\ UNCHANGED getFrame

\* A call begins when no other is in progress.
SeqGet ==
    /\ \A t \in Threads : gets[t].pc = "idle"
    /\ \E t \in Threads, location \in ServiceLocations, d \in ServiceDates,
          use_cache \in BOOLEAN : TGet(t, location, d, use_cache)

\* The calls of get_prayer_times one after another, and the cleanup at
\* any point of them.
NextService ==
    \/ SeqGet
    \/ \E t \in Threads : TFetch(t)
    \/ \E t \in Threads : TSaveQuery(t)
    \/ \E t \in Threads : TSaveWrite(t)
    \/ \E t \in Threads : TReturn(t)
    \/ CleanupOldCache

SpecService == InitService /\ [][NextService]_vars

\* The places the concurrent requests come from: London and Mecca, both
\* with the city "Unknown".
RaceLocations == {location \in ServiceLocations : ~location.is_uzbekistan}

\* Requests of the API served at the same time, for the last day.
RaceGet ==
    \E t \in Threads, location \in RaceLocations, use_cache \in BOOLEAN :
        TGet(t, location, MaxDay, use_cache)

\* The calls of get_prayer_times by the threads of the pool, in any
\* interleaving.
NextRace ==
    \/ RaceGet
    \/ \E t \in Threads : TFetch(t)
    \/ \E t \in Threads : TSaveQuery(t)
    \/ \E t \in Threads : TSaveWrite(t)
    \/ \E t \in Threads : TReturn(t)

SpecRace == InitService /\ [][NextRace]_vars

\* ------------------------------------------ POST /sleep-schedule/full
\* The target_date of a request: absent, a text strptime('%Y-%m-%d') reads
\* as a date, or a text it rejects.
TargetDates ==
    {[kind |-> "absent"], [kind |-> "invalid"],
     [kind |-> "date", date |-> MaxDay]}

\* The requests that are begun.
MaxRequests == 2

\* The places the requests come from: London and Mecca.
FullPoints == {point \in GpsPoints : point[1] < 370000 \/ point[1] > 455000}

fullFrame == <<time_str, parsed, now, sleep_schedule, time_until, first,
               calls, event, buffered>>

\* Thread t begins the handler: get_location_from_gps makes the location
\* and _save_location queries the row of its city.  When the query raises
\* nothing is saved, and the location is returned all the same.  changed
\* is whether the request has changed the table of the user locations.
FullLocate(t, point, target_date) ==
    /\ full[t].pc = "idle"
    /\ served < MaxRequests
    /\ served' = served + 1
    /\ \E location \in LocationOf(point[1], point[2]), raises \in BOOLEAN :
           full' = [full EXCEPT ![t] =
                       [pc |-> IF raises THEN "located" ELSE "save_write",
                        location |-> location,
                        target_date |-> target_date,
                        changed |-> FALSE,
                        existing |->
                            IF raises THEN 0
                            ELSE existing_location(user_location,
                                                   location.city)]]
    /\ UNCHANGED <<user_location, cache, saved, gets>>
    /\ UNCHANGED callVars
    /\ UNCHANGED fullFrame

\* Thread t updates the row it found, or adds one, and commits.
FullSaveWrite(t) ==
    /\ full[t].pc = "save_write"
    /\ \E raises \in BOOLEAN :
           /\ user_location' = save_location(user_location, full[t].existing,
                                             full[t].location, now, raises)
           /\ full' = [full EXCEPT ![t] =
                          [@ EXCEPT !.pc = "located",
                                    !.existing = 0,
                                    !.changed =
                                        user_location' # user_location]]
    /\ UNCHANGED <<cache, saved, served, gets>>
    /\ UNCHANGED callVars
    /\ UNCHANGED fullFrame

\* The date is parsed: a text that is no date ends the request with
\* status 400; without target_date the date is today's.
FullParseDate(t) ==
    /\ full[t].pc = "located"
    /\ full' = [full EXCEPT ![t] =
                   IF full[t].target_date.kind = "invalid"
                   THEN [pc |-> "rejected", status |-> 400,
                         changed |-> full[t].changed]
                   ELSE [pc |-> "dated",
                         location |-> full[t].location,
                         date_obj |-> IF full[t].target_date.kind = "date"
                                      THEN full[t].target_date.date
                                      ELSE now \div SecondsPerDay,
                         changed |-> full[t].changed]]
    /\ UNCHANGED <<user_location, cache, saved, served, gets>>
    /\ UNCHANGED callVars
    /\ UNCHANGED fullFrame

\* Thread t enters get_prayer_times for the location and the date, with
\* use_cache; the call goes on with TFetch, TSaveQuery and TSaveWrite.
FullPrayerTimes(t) ==
    /\ full[t].pc = "dated"
    /\ \E raises \in BOOLEAN :
           gets' = [gets EXCEPT ![t] =
                       EnterGet(cache, full[t].location, full[t].date_obj,
                                TRUE, raises)]
    /\ full' = [full EXCEPT ![t] =
                   [pc |-> "prayer_times",
                    location |-> full[t].location,
                    changed |-> full[t].changed]]
    /\ UNCHANGED <<user_location, cache, saved, served>>
    /\ UNCHANGED callVars
    /\ UNCHANGED fullFrame

\* get_prayer_times has returned to thread t.  Without prayer times the
\* request ends with status 500; else the schedule is calculated, and the
\* request goes on to the calendar when it has create_calendar_event,
\* which is read here first.
FullSchedule(t, create_calendar_event) ==
    /\ full[t].pc = "prayer_times"
    /\ gets[t].pc = "done"
    /\ gets' = [gets EXCEPT ![t] = IdleGet]
    /\ LET times == gets[t].result
           isha == parse_time_str(times.isha)
           fajr == parse_time_str(times.fajr)
           sched == calculate_optimal_schedule(
                        optimizer,
                        [date |-> times.date,
                         isha |-> FormatTime(isha.time),
                         fajr |-> FormatTime(fajr.time)])
       IN full' = [full EXCEPT ![t] =
                      IF times.kind = "None"
                      THEN [pc |-> "unavailable", status |-> 500,
                            changed |-> full[t].changed]
                      ELSE IF isha.kind = "raise" \/ fajr.kind = "raise"
                           THEN [pc |-> "failed", status |-> 500,
                                 changed |-> full[t].changed]
                           ELSE [pc |-> IF create_calendar_event
                                        THEN "calendar" ELSE "scheduled",
                                 location |-> full[t].location,
                                 prayer_times |-> times,
                                 sleep_schedule |-> sched,
                                 calendar_event |-> [kind |-> "None"],
                                 changed |-> full[t].changed]]
    /\ UNCHANGED <<user_location, cache, saved, served>>
    /\ UNCHANGED callVars
    /\ UNCHANGED fullFrame

\* Thread t has waited for the calendar in create_sleep_block: the event
\* is inserted, or None is returned.
FullCalendar(t) ==
    /\ full[t].pc = "calendar"
    /\ \E inserted \in BOOLEAN :
           full' = [full EXCEPT ![t] =
                       [@ EXCEPT
                            !.pc = "scheduled",
                            !.calendar_event =
                                IF inserted
                                THEN create_sleep_block(
                                         full[t].sleep_schedule)
                                ELSE [kind |-> "None"]]]
    /\ UNCHANGED <<user_location, cache, saved, served, gets>>
    /\ UNCHANGED callVars
    /\ UNCHANGED fullFrame

\* Thread t reads the clock in get_time_until_sleep and responds.
FullRespond(t) ==
    /\ full[t].pc = "scheduled"
    /\ full' = [full EXCEPT ![t] =
                   [pc |-> "responded", status |-> 200,
                    location |-> full[t].location,
                    prayer_times |-> full[t].prayer_times,
                    sleep_schedule |-> full[t].sleep_schedule,
                    calendar_event |-> full[t].calendar_event,
                    time_until_sleep |->
                        get_time_until_sleep(full[t].sleep_schedule, now),
                    changed |-> full[t].changed]]
    /\ UNCHANGED <<user_location, cache, saved, served, gets>>
    /\ UNCHANGED callVars
    /\ UNCHANGED fullFrame

\* The response of thread t has been sent.
FullFinish(t) ==
    /\ full[t].pc \in {"rejected", "unavailable", "failed", "responded"}
    /\ full' = [full EXCEPT ![t] = IdleFull]
    /\ UNCHANGED <<user_location, cache, saved, served, gets>>
    /\ UNCHANGED callVars
    /\ UNCHANGED fullFrame

\* The times the wall clock is read at while requests are served: the
\* midnight that day 0 begins with and the evening of day 0.
FullClockTimes == {0, 20 * 3600}

\* Time passes.
FullTick ==
    /\ \E n \in FullClockTimes : n > now /\ now' = n
    /\ UNCHANGED <<time_str, parsed, sleep_schedule, time_until, first, calls>>
    /\ UNCHANGED callVars
    /\ UNCHANGED serviceVars

\* The requests of the threads of the pool, in any interleaving, while
\* time passes.
NextFull ==
    \/ \E t \in Threads, point \in FullPoints, target_date \in TargetDates :
           FullLocate(t, point, target_date)
    \/ \E t \in Threads : FullSaveWrite(t)
    \/ \E t \in Threads : FullParseDate(t)
    \/ \E t \in Threads : FullPrayerTimes(t)
    \/ \E t \in Threads : TFetch(t)
    \/ \E t \in Threads : TSaveQuery(t)
    \/ \E t \in Threads : TSaveWrite(t)
    \/ \E t \in Threads, create_calendar_event \in BOOLEAN :
           FullSchedule(t, create_calendar_event)
    \/ \E t \in Threads : FullCalendar(t)
    \/ \E t \in Threads : FullRespond(t)
    \/ \E t \in Threads : FullFinish(t)
    \/ FullTick

SpecFull == InitService /\ [][NextFull]_vars

\* ------------------------------------------------------------ properties
\* Minutes after midnight of a time text, and the text of a number of
\* minutes read on the 24-hour clock.
Clock(text) == text[1] * 60 + text[2]
WallClock(m) == <<(m % (24 * 60)) \div 60, m % 60>>

\* The call has returned a schedule.
Returned == pc = "returned"

\* Both texts of the call in progress are well-formed times.
ValidInput ==
    /\ pc # "idle"
    /\ prayer_times.isha[1] \in 0..23 /\ prayer_times.isha[2] \in 0..59
    /\ prayer_times.fajr[1] \in 0..23 /\ prayer_times.fajr[2] \in 0..59

\* Minutes from Isha + 30 on the date to Fajr on the next day.
Window == 24 * 60 + Clock(prayer_times.fajr) - (Clock(prayer_times.isha) + 30)

\* Isha + 30 minutes on the clock.
IshaPlusBuffer == WallClock(Clock(prayer_times.isha) + 30)

\* C1: the duration of a returned schedule lies between the minimum (6.0 h)
\* and the maximum (7.5 h) duration.
C1_DurationWithinBounds ==
    Returned => /\ schedule.duration_hours >= 600
                /\ schedule.duration_hours <= 750

\* A schedule whose raw duration was beyond the maximum has been returned.
C1_Witness ==
    /\ Returned
    /\ raw.duration_hours > 750
    /\ schedule.duration_hours = 750
    /\ raw.notes = NoteFajr

\* C2: when the minimum-bound correction did not fire, the sleep start of
\* the schedule is Isha plus 30 minutes on the clock, wrapping at midnight.
C2_SleepStartIsIshaPlusBuffer ==
    (Returned /\ raw.duration_hours >= 600)
        => schedule.sleep_start = IshaPlusBuffer

\* An uncorrected schedule whose Isha + 30 minutes passes midnight.
C2_Witness ==
    /\ Returned
    /\ raw.duration_hours >= 600
    /\ Clock(prayer_times.isha) + 30 >= 24 * 60
    /\ schedule.sleep_start = IshaPlusBuffer

\* C3: when the pivot branch was not taken, the sleep end of the schedule,
\* read as a time of the next day, is not after Fajr minus the Fajr buffer
\* (0 minutes) of the next day.
C3_SleepEndNotAfterFajr ==
    (Returned /\ raw.notes # NotePivot)
        => Clock(schedule.sleep_end) <= Clock(prayer_times.fajr) - 0

\* C4 as stated: before the bounds are enforced the wake is the pivot
\* instant when the window is at least max + 0.5 = 8.0 h and the pivot hour
\* is before the Fajr hour, and Fajr minus the buffer otherwise.
C4_PivotAboveMaxPlusHalf ==
    pc = "chosen" =>
        LET pivot == (prayer_times.date + 1) * 24 * 60 + 4 * 60
            latest == (prayer_times.date + 1) * 24 * 60
                          + Clock(prayer_times.fajr) - 0
            usePivot == Window >= 480 /\ 4 < prayer_times.fajr[1]
        IN /\ usePivot => wake_dt = pivot
           /\ ~usePivot => wake_dt = latest

\* C4 amended: the same with the window at least 7.5 h.
C4_PivotFromSevenAndHalf ==
    pc = "chosen" =>
        LET pivot == (prayer_times.date + 1) * 24 * 60 + 4 * 60
            latest == (prayer_times.date + 1) * 24 * 60
                          + Clock(prayer_times.fajr) - 0
            usePivot == Window >= 450 /\ 4 < prayer_times.fajr[1]
        IN /\ usePivot => (wake_dt = pivot /\ notes = NotePivot)
           /\ ~usePivot => (wake_dt = latest /\ notes # NotePivot)

\* The pivot has been chosen for a window between 7.5 h and 8.0 h.
C4_Witness ==
    /\ pc = "chosen"
    /\ Window >= 450 /\ Window < 480
    /\ prayer_times.fajr[1] > 4
    /\ notes = NotePivot
    /\ wake_dt # (prayer_times.date + 1) * 24 * 60 + Clock(prayer_times.fajr)

\* C5: when the raw duration is below the minimum, the wake of the branch
\* is kept, the sleep start is the wake minus 6 h, the duration is 6.0 h
\* and the note is the one of the adjustment.
C5_MinCorrectionMovesStart ==
    (Returned /\ raw.duration_hours < 600) =>
        /\ wake_dt = raw.wake_dt
        /\ sleep_start_dt = raw.wake_dt - 360
        /\ schedule.sleep_end = WallClock(raw.wake_dt)
        /\ schedule.sleep_start = WallClock(raw.wake_dt - 360)
        /\ schedule.duration_hours = 600
        /\ schedule.notes = NoteAdjusted

\* A schedule whose raw duration was below the minimum has been returned.
C5_Witness ==
    /\ Returned
    /\ raw.duration_hours < 600
    /\ raw.notes = NoteWarning
    /\ sleep_start_dt < raw.sleep_start_dt

\* C6: when the raw duration is above the maximum, the sleep start stays at
\* Isha plus 30 minutes, the sleep end is the sleep start plus 7.5 h, the
\* duration is 7.5 h and the note is the one of the cap.
C6_MaxCorrectionMovesWake ==
    (Returned /\ raw.duration_hours > 750) =>
        /\ sleep_start_dt = raw.sleep_start_dt
        /\ wake_dt = raw.sleep_start_dt + 450
        /\ schedule.sleep_start = IshaPlusBuffer
        /\ schedule.sleep_end = WallClock(Clock(prayer_times.isha) + 30 + 450)
        /\ schedule.duration_hours = 750
        /\ schedule.notes = NoteCapped

\* A capped schedule has been returned, its wake earlier than the branch's.
C6_Witness ==
    /\ Returned
    /\ raw.duration_hours > 750
    /\ raw.notes = NotePivot
    /\ wake_dt < raw.wake_dt

\* Scenario C: Isha 20:00, Fajr 04:30.
ScenarioC ==
    /\ Returned
    /\ prayer_times.isha = <<20, 0>>
    /\ prayer_times.fajr = <<4, 30>>

\* C7 as stated: in scenario C the pivot is not used, the wake is taken at
\* 04:30 with a raw duration of 8.0 h, and the schedule is capped to 7.5 h
\* and ends at 03:30.
C7_ScenarioCEndsAt0330 ==
    ScenarioC =>
        /\ raw.notes = NoteFajr
        /\ WallClock(raw.wake_dt) = <<4, 30>>
        /\ raw.duration_hours = 800
        /\ schedule.duration_hours = 750
        /\ schedule.sleep_end = <<3, 30>>

\* C7 amended: the same, but the capped schedule ends at 04:00.
C7_ScenarioCEndsAt0400 ==
    ScenarioC =>
        /\ raw.notes = NoteFajr
        /\ WallClock(raw.wake_dt) = <<4, 30>>
        /\ raw.duration_hours = 800
        /\ schedule.duration_hours = 750
        /\ schedule.sleep_start = <<20, 30>>
        /\ schedule.sleep_end = <<4, 0>>

\* Scenario C has returned, capped.
C7_Witness == ScenarioC /\ schedule.notes = NoteCapped

\* C8: when the window from Isha + 30 to Fajr is at least the minimum, the
\* sleep start stays at Isha plus 30 minutes and the note is not the one of
\* the adjustment.
C8_NoMinCorrectionWhenWindowSuffices ==
    (Returned /\ Window >= 360) =>
        /\ schedule.sleep_start = IshaPlusBuffer
        /\ schedule.notes # NoteAdjusted

\* C9: with well-formed times whose window is shorter than the minimum the
\* call does not fail, and the schedule it returns ends at Fajr (minus the
\* buffer of 0 minutes), lasts 6.0 h and carries the note of the adjustment.
C9_DegenerateWindowStillScheduled ==
    (ValidInput /\ Window < 360) =>
        /\ pc # "failed"
        /\ Returned =>
              /\ schedule.date = prayer_times.date
              /\ schedule.sleep_end = WallClock(Clock(prayer_times.fajr) - 0)
              /\ schedule.duration_hours = 600
              /\ schedule.notes = NoteAdjusted

\* A schedule has been returned for a window shorter than the minimum.
C9_Witness ==
    /\ Returned
    /\ Window < 360
    /\ Window > 0
    /\ schedule.sleep_end = prayer_times.fajr

\* Scenario A: Isha 19:00, Fajr 05:30.
ScenarioA ==
    /\ Returned
    /\ prayer_times.isha = <<19, 0>>
    /\ prayer_times.fajr = <<5, 30>>

\* C10: in scenario A the pivot branch is taken (raw sleep from 19:30 to
\* 04:00, 8.5 h) and the schedule is capped: it starts at 19:30, ends at
\* 03:00 and lasts 7.5 h.
C10_ScenarioACapped ==
    ScenarioA =>
        /\ raw.notes = NotePivot
        /\ WallClock(raw.sleep_start_dt) = <<19, 30>>
        /\ WallClock(raw.wake_dt) = <<4, 0>>
        /\ raw.duration_hours = 850
        /\ schedule.sleep_start = <<19, 30>>
        /\ schedule.sleep_end = <<3, 0>>
        /\ schedule.duration_hours = 750

\* Scenario A has returned.
C10_Witness == ScenarioA /\ schedule.date = prayer_times.date

\* Scenario B: Isha 23:30, Fajr 05:00.
ScenarioB ==
    /\ Returned
    /\ prayer_times.isha = <<23, 30>>
    /\ prayer_times.fajr = <<5, 0>>

\* C11: in scenario B the degenerate branch is taken (Isha + 30 minutes is
\* 00:00 of the next day, the window is 5.0 h), the wake stays at 05:00,
\* the sleep start is pulled back to 23:00, the duration is 6.0 h and the
\* note is the one of the adjustment.
C11_ScenarioBAdjusted ==
    ScenarioB =>
        /\ raw.notes = NoteWarning
        /\ raw.sleep_start_dt = (prayer_times.date + 1) * 24 * 60
        /\ available = 300
        /\ raw.duration_hours = 500
        /\ schedule.sleep_end = <<5, 0>>
        /\ schedule.sleep_start = <<23, 0>>
        /\ schedule.duration_hours = 600
        /\ schedule.notes = NoteAdjusted

\* Scenario B has returned, its sleep start moved.
C11_Witness == ScenarioB /\ sleep_start_dt # raw.sleep_start_dt

\* The Isha and Fajr instants of the call in progress.
IshaInstant == prayer_times.date * 24 * 60 + Clock(prayer_times.isha)
FajrInstant == (prayer_times.date + 1) * 24 * 60 + Clock(prayer_times.fajr)

\* C19: the sleep start of a returned schedule is not before the Isha
\* instant of the date.
C19_SleepStartNotBeforeIsha ==
    Returned => sleep_start_dt >= IshaInstant

\* C20: the final wake instant of a returned schedule is not after the Fajr
\* instant of the next day, whatever the branch and the correction.
C20_WakeNotAfterFajr ==
    Returned => wake_dt <= FajrInstant

\* A schedule of the pivot branch, capped, has been returned.
C20_Witness ==
    /\ Returned
    /\ raw.notes = NotePivot
    /\ schedule.notes = NoteCapped
    /\ wake_dt < FajrInstant

\* The parts of the text parsed alone, and whether the call has ended.
Parts == Split(Strip(time_str))
ParseDone == parsed.kind # "none"

\* C13: _parse_time raises, and returns no time, for every text whose hour
\* is outside 0..23 or whose minute is outside 0..59 ("25:99" among them),
\* and for every text without two numeric parts at its head.
C13_MalformedTextRaises ==
    ParseDone =>
        /\ (\/ Len(Parts) < 2
            \/ ~IsInt(Parts[1])
            \/ ~IsInt(Parts[2])
            \/ IntVal(Parts[1]) \notin 0..23
            \/ IntVal(Parts[2]) \notin 0..59) => parsed.kind = "raise"
        /\ time_str = <<"2", "5", ":", "9", "9">> => parsed.kind = "raise"

\* Two numeric parts, the hour out of range, have been rejected.
C13_Witness ==
    /\ ParseDone
    /\ Len(Parts) >= 2 /\ IsInt(Parts[1]) /\ IsInt(Parts[2])
    /\ IntVal(Parts[1]) > 23
    /\ IntVal(Parts[2]) \in 0..59
    /\ parsed.kind = "raise"

\* The text of the first two parts of the text parsed alone.
HourMinuteText == Parts[1] \o <<":">> \o Parts[2]

\* C15: a text "h:m:s" with a valid hour and minute parses to the same
\* time as "h:m", the hour h and the minute m, whatever the seconds s.
C15_SecondsIgnored ==
    (/\ ParseDone
     /\ Len(Parts) >= 3
     /\ parse_time_str(HourMinuteText).kind = "time") =>
        /\ parsed = parse_time_str(HourMinuteText)
        /\ parsed.kind = "time"
        /\ parsed.time.hour = IntVal(Parts[1])
        /\ parsed.time.minute = IntVal(Parts[2])

\* A text with seconds other than its minute has been parsed.
C15_Witness ==
    /\ ParseDone
    /\ Len(Parts) = 3
    /\ IsInt(Parts[3])
    /\ parsed.kind = "time"
    /\ IntVal(Parts[3]) # parsed.time.minute
    /\ parsed.time.hour # parsed.time.minute

\* C14: when the Isha or the Fajr text posted is malformed the call fails:
\* no schedule is returned and no time has been computed.
C14_MalformedInputFails ==
    (pc # "idle" /\ (request.isha \in BadTexts \/ request.fajr \in BadTexts)) =>
        /\ pc = "failed"
        /\ schedule = None
        /\ sleep_start_dt = None
        /\ wake_dt = None

\* A call with a well-formed Isha and a malformed Fajr has failed.
C14_Witness ==
    /\ pc = "failed"
    /\ request.isha \in GoodTexts
    /\ request.fajr \in BadTexts

\* get_time_until_sleep has returned; the sleep start of its schedule on
\* the date of the schedule, in seconds; the minutes it reported.
UntilDone == time_until.kind # "none"
SleepInstant ==
    (sleep_schedule.date * 24 * 60 + Clock(sleep_schedule.sleep_start)) * 60
MinutesReported == time_until.hours * 60 + time_until.minutes

\* C16: when now is not after the sleep start on the date of the schedule
\* the time reported runs to that instant; when now is after it, and not
\* after the sleep start of the next day, the time reported runs to the
\* sleep start of the next day; both in whole minutes, rounded down.
C16_RemainingTimeRollsToNextDay ==
    UntilDone =>
        /\ now <= SleepInstant =>
              /\ time_until.kind = "str"
              /\ MinutesReported = (SleepInstant - now) \div 60
              /\ time_until.minutes \in 0..59
        /\ (SleepInstant < now /\ now <= SleepInstant + 86400) =>
              /\ time_until.kind = "str"
              /\ MinutesReported = (SleepInstant + 86400 - now) \div 60
              /\ time_until.minutes \in 0..59

\* The time to the sleep start of the next day has been reported, some
\* seconds of it dropped.
C16_Witness ==
    /\ UntilDone
    /\ SleepInstant < now /\ now < SleepInstant + 86400
    /\ time_until.kind = "str"
    /\ time_until.hours > 0
    /\ (SleepInstant + 86400 - now) % 60 # 0

\* C17: get_time_until_sleep returns None exactly when now is after the
\* sleep start of the day after the date of the schedule, and otherwise a
\* time that is not negative.
C17_NoneOnlyAfterNextDay ==
    UntilDone =>
        /\ time_until.kind = "None" <=> now > SleepInstant + 86400
        /\ time_until.kind # "None" =>
              /\ time_until.kind = "str"
              /\ time_until.hours >= 0
              /\ time_until.minutes >= 0

\* None has been returned, and for another clock the sleep start of the
\* next day was met to the second.
C17_Witness ==
    /\ UntilDone
    /\ \/ time_until.kind = "None" /\ now = SleepInstant + 86400 + 1
       \/ time_until.kind = "str" /\ now = SleepInstant + 86400

\* C12: a call returns the schedule an earlier call with the same prayer
\* times returned, field for field, whatever the wall clock showed at the
\* two calls and whatever calls were made in between.
C12_SameInputSameSchedule ==
    (/\ Returned
     /\ first.set
     /\ first.prayer_times = prayer_times) => schedule = first.schedule

\* The prayer times remembered have been posted again, on a later day.
C12_Witness ==
    /\ Returned
    /\ first.set
    /\ first.prayer_times = prayer_times
    /\ now >= first.at + 24 * 60 * 60
    /\ schedule = first.schedule

\* What calculate_optimal_schedule returns for the prayer times of the
\* concurrent requests when it runs alone (the sleep start, the sleep end,
\* the duration and the note).
AloneResult(pt) ==
    CASE pt.isha = <<19, 0>> ->
             <<<<19, 30>>, <<3, 0>>, 750, NoteCapped>>
      [] pt.isha = <<22, 0>> /\ pt.fajr = <<5, 0>> ->
             <<<<22, 30>>, <<5, 0>>, 650, NoteFajr>>
      [] pt.isha = <<22, 0>> /\ pt.fajr = <<6, 30>> ->
             <<<<22, 0>>, <<4, 0>>, 600, NoteAdjusted>>
      [] pt.isha = <<23, 30>> /\ pt.fajr = <<5, 0>> ->
             <<<<23, 0>>, <<5, 0>>, 600, NoteAdjusted>>
      [] pt.isha = <<23, 30>> /\ pt.fajr = <<6, 30>> ->
             <<<<0, 0>>, <<6, 30>>, 650, NoteFajr>>

\* C18: under every interleaving of the concurrent calls each call returns
\* the schedule it returns when run alone, and the policy fields of the
\* shared optimizer stay as constructed.
C18_ConcurrentCallsIndependent ==
    /\ optimizer = SleepOptimizerInit
    /\ \A t \in Threads :
           calls[t].pc = "returned" =>
               LET s == calls[t].schedule
                   pt == calls[t].prayer_times
               IN /\ s.date = pt.date
                  /\ s.isha_time = pt.isha
                  /\ s.fajr_time = pt.fajr
                  /\ <<s.sleep_start, s.sleep_end, s.duration_hours, s.notes>>
                         = AloneResult(pt)
                  /\ s = calculate_optimal_schedule(SleepOptimizerInit, pt)

\* A call has returned while another, on other prayer times, is between
\* its branch and its bounds.
C18_Witness ==
    /\ calls[1].pc = "returned"
    /\ calls[2].pc = "chosen"
    /\ calls[1].prayer_times # calls[2].prayer_times
    /\ calls[1].schedule.notes = NoteAdjusted


\* Minutes from the sleep start to the sleep end of the schedule, both read
\* on the 24-hour clock.
ClockSpan ==
    (24 * 60 + Clock(schedule.sleep_end) - Clock(schedule.sleep_start))
        % (24 * 60)

\* C22: the duration of a returned schedule is the time from its sleep
\* start to its sleep end on the 24-hour clock: the duration is that time
\* rounded to hundredths of an hour, and to the minute they are equal,
\* whether a bound was enforced or not.
C22_DurationMatchesClockTimes ==
    (Returned /\ ValidInput)
        => /\ schedule.duration_hours = RoundHours(ClockSpan)
           /\ (schedule.duration_hours * 60 + 50) \div 100 = ClockSpan

\* A capped schedule whose clock times are 7.5 hours apart, across midnight.
C22_Witness ==
    /\ Returned
    /\ raw.duration_hours > 750
    /\ schedule.duration_hours = 750
    /\ ClockSpan = 450
    /\ Clock(schedule.sleep_end) < Clock(schedule.sleep_start)

\* C30: with the Fajr buffer of the settings (0 minutes) no returned
\* schedule carries the warning note: where the degenerate branch has set
\* it, the correction below the minimum has replaced it with the note of
\* the adjustment.
C30_NoWarningNoteReturned ==
    (Returned /\ ValidInput)
        => /\ schedule.notes # NoteWarning
           /\ raw.notes = NoteWarning => schedule.notes = NoteAdjusted

\* A schedule of the degenerate branch, returned with the adjustment note.
C30_Witness ==
    /\ Returned
    /\ optimizer.fajr_buffer >= 0
    /\ raw.notes = NoteWarning
    /\ raw.duration_hours < 600
    /\ schedule.notes = NoteAdjusted


\* C21: the event built for a returned schedule starts at the sleep start
\* and ends at the wake instant the optimizer computed, so that its length
\* is the duration of the schedule.
C21_EventCoversSleepWindow ==
    (event.kind = "event" /\ ValidInput)
        => /\ event.start_dt = sleep_start_dt
           /\ event.end_dt = wake_dt
           /\ RoundHours(event.end_dt - event.start_dt)
                  = schedule.duration_hours


\* _add_time_buffer has returned.
BufferDone == buffered.kind # "none"

\* A text of the form HH:MM: two digits, the separator, two digits, the
\* hour at most 23 and the minute at most 59.
WellFormedHHMM(text) ==
    /\ Len(text) = 5
    /\ text[3] = ":"
    /\ \A i \in {1, 2, 4, 5} : text[i] \in Digits
    /\ DigitsVal(SubSeq(text, 1, 2)) <= 23
    /\ DigitsVal(SubSeq(text, 4, 5)) <= 59

\* Minutes after midnight of a text of the form HH:MM.
MinutesOfHHMM(text) ==
    DigitsVal(SubSeq(text, 1, 2)) * 60 + DigitsVal(SubSeq(text, 4, 5))

\* C28 as stated: a text of the form HH:MM comes back as the time 15
\* minutes later, wrapping at midnight, and every other text comes back
\* unchanged.
C28_BufferOnlyOnHHMM ==
    BufferDone
        => /\ buffered.kind = "str"
           /\ IF WellFormedHHMM(time_str)
              THEN buffered.text = ClockText(MinutesOfHHMM(time_str) + 15)
              ELSE buffered.text = time_str

\* C28, amended: the time 15 minutes later comes back, as HH:MM and
\* wrapping at midnight, for every text of exactly two parts that int()
\* accepts as an hour and a minute (every HH:MM text is one, and so are
\* texts without leading zeros, with blanks or with a plus sign); every
\* other text comes back unchanged, and nothing is raised.
C28_BufferOnTwoNumbers ==
    BufferDone
        => /\ buffered.kind = "str"
           /\ WellFormedHHMM(time_str) => BufferParses(time_str)
           /\ IF BufferParses(time_str)
              THEN /\ buffered.text =
                          ClockText(IntVal(Split(time_str)[1]) * 60
                                    + IntVal(Split(time_str)[2]) + 15)
                   /\ WellFormedHHMM(buffered.text)
                   /\ (WellFormedHHMM(time_str)
                         /\ MinutesOfHHMM(time_str) >= 23 * 60 + 45)
                        => MinutesOfHHMM(buffered.text)
                              < MinutesOfHHMM(time_str)
              ELSE buffered.text = time_str

\* A time in the last quarter of an hour of the day has come back as a
\* time in the first quarter of an hour.
C28_Witness ==
    /\ BufferDone
    /\ WellFormedHHMM(time_str)
    /\ MinutesOfHHMM(time_str) >= 23 * 60 + 45
    /\ MinutesOfHHMM(buffered.text) < 15


\* The key of the call of thread t in the cache.
GetKey(t) == <<gets[t].location.city, gets[t].target_date>>

\* The call of thread t has ended: its result is in its frame.
GetDone(t) == gets[t].pc = "done"

\* The call of thread t asked the provider and got no prayer times.
FetchFailed(t) == gets[t].asked /\ gets[t].prayer_times.kind = "None"

\* C23: a call whose fetch failed returns what the cache holds for the
\* city and the date, with use_cache or without, and so returns None only
\* when the cache holds nothing for them.
C23_FailedFetchFallsBackToCache ==
    \A t \in Threads :
        (GetDone(t) /\ FetchFailed(t)) => gets[t].result = gets[t].entry

\* C24: a call with use_cache for a city and a date the cache holds an
\* entry for ends at once with that entry: it does not ask the provider
\* and does not write the cache; the provider is asked only without
\* use_cache or after a miss, and the cache is written only with prayer
\* times fetched.
C24_CacheHitAsksNobody ==
    \A t \in Threads :
        /\ (gets[t].pc # "idle" /\ gets[t].use_cache
               /\ gets[t].entry.kind # "None")
              => /\ GetDone(t)
                 /\ gets[t].result = gets[t].entry
                 /\ ~gets[t].asked
                 /\ ~gets[t].wrote
        /\ gets[t].pc \in {"fetch", "save", "write"}
              => (~gets[t].use_cache \/ gets[t].entry.kind = "None")
        /\ gets[t].wrote
              => (gets[t].asked /\ gets[t].prayer_times.kind # "None")

\* C24, amended: a call with use_cache whose lookup returns an entry, which
\* is the entry the cache holds for the city and the date, ends at once
\* with it: it does not ask the provider and does not write the cache; the
\* provider is asked only without use_cache or after a lookup that
\* returned nothing, be it that the cache holds nothing or that the lookup
\* raised, and the cache is written only with prayer times fetched.
C24_LookupHitAsksNobody ==
    \A t \in Threads :
        /\ (gets[t].pc # "idle" /\ gets[t].cached.kind # "None")
              => /\ gets[t].use_cache
                 /\ gets[t].cached = gets[t].entry
                 /\ GetDone(t)
                 /\ gets[t].result = gets[t].entry
                 /\ ~gets[t].asked
                 /\ ~gets[t].wrote
        /\ gets[t].pc \in {"fetch", "save", "write"}
              => (~gets[t].use_cache \/ gets[t].cached.kind = "None")
        /\ gets[t].asked => gets[t].cached.kind = "None"
        /\ gets[t].wrote
              => (gets[t].asked /\ gets[t].prayer_times.kind # "None")

\* A call with use_cache has returned the entry of an earlier fetch.
C24_Witness ==
    \E t \in Threads :
        /\ GetDone(t)
        /\ gets[t].use_cache
        /\ gets[t].cached.kind = "PrayerTimes"
        /\ gets[t].result = gets[t].cached
        /\ ~gets[t].asked
        /\ Len(cache) >= 1

\* C25: the prayer times a call returns have the latitude and the
\* longitude of the location asked about.
C25_ResultIsForRequestedLocation ==
    \A t \in Threads :
        (GetDone(t) /\ gets[t].result.kind # "None")
            => /\ gets[t].result.latitude = gets[t].location.latitude
               /\ gets[t].result.longitude = gets[t].location.longitude

\* C26: the cache never holds two rows for the same city and date.
C26_OneRowPerCityAndDate ==
    \A i \in 1..Len(cache), j \in 1..Len(cache) :
        (cache[i].city = cache[j].city /\ cache[i].date = cache[j].date)
            => i = j

\* C29: a cache hit returns the date, the six times and the location
\* fields that the fetch cached last for the city and the date returned.
C29_CacheHitReturnsWhatWasFetched ==
    \A t \in Threads :
        (GetDone(t) /\ ~gets[t].asked /\ gets[t].result.kind # "None")
            => /\ GetKey(t) \in DOMAIN saved
               /\ gets[t].result = saved[GetKey(t)]


\* C27: a request rejected with status 400 for its target_date has
\* changed neither the table of the user locations nor the cache of the
\* prayer times.
C27_RejectedRequestChangesNothing ==
    \A t \in Threads :
        (full[t].pc = "rejected" /\ full[t].status = 400)
            => /\ ~full[t].changed
               /\ gets[t] = IdleGet

=============================================================================
